---------------------------- MODULE Spec2Model ----------------------------
(***************************************************************************)
(* A model of the NFC bridge (nfc_bridge/nfc_bridge.py): the payload codec,*)
(* the NTAG and MIFARE Classic command sequences, one poll cycle           *)
(* (poll_nfc_blocking) running on the worker thread, the event loop        *)
(* (nfc_poll_loop) with its debounce filter and broadcast, and the client  *)
(* session handler (handle_client).                                        *)
(*                                                                         *)
(* Strings are sequences of code points, byte strings are sequences of     *)
(* 0..255.  Python's None is the empty tuple and a present value x is the  *)
(* one-element tuple <<x>>, so that the empty string and None differ.      *)
(***************************************************************************)
EXTENDS Integers, Sequences, FiniteSets, TLC

VARIABLES
    (* the bridge state object (class BridgeState) *)
    clients, write_pending, last_scan_id, last_scan_time,
    reader_connected, last_error_event, last_error_time,
    (* the world: the wall clock, the reader, the card lying on it *)
    now, readerPresent, card, cstate,
    (* the worker thread running poll_nfc_blocking *)
    w_pc, w_type, w_sid, w_success, w_result, conn, tx,
    (* the coroutine nfc_poll_loop, and the broadcast it is suspended in *)
    l_pc, was_connected, l_result, bc,
    (* history: what the loop emitted, and what the claims need recorded *)
    emitted, hist,
    (* the scenario: the inputs the environment may draw from *)
    env,
    (* the unit under test of the pure-function specifications *)
    unit

vars == << clients, write_pending, last_scan_id, last_scan_time,
           reader_connected, last_error_event, last_error_time,
           now, readerPresent, card, cstate,
           w_pc, w_type, w_sid, w_success, w_result, conn, tx,
           l_pc, was_connected, l_result, bc, emitted, hist, env, unit >>

-----------------------------------------------------------------------------
(* Optional values and strings *)

None == << >>
Some(x) == << x >>
IsNone(o) == o = << >>
Val(o) == o[1]

Colon == 58
Nul == 0
Space == 32

(* n copies of the code point c *)
Rep(c, n) == [ i \in 1..n |-> c ]

(* str.encode("ascii") succeeds exactly on code points below 128 *)
IsAscii(s) == \A i \in 1..Len(s) : s[i] < 128

(* the whitespace str.strip() removes from an ASCII string *)
IsSpace(c) == c \in {9, 10, 11, 12, 13, 28, 29, 30, 31, 32}

(* position of the first occurrence of c in s, 0 when absent *)
IndexOf(s, c) ==
    IF \E i \in 1..Len(s) : s[i] = c
    THEN CHOOSE i \in 1..Len(s) : s[i] = c /\ \A j \in 1..(i - 1) : s[j] # c
    ELSE 0

(* str.strip() *)
Strip(s) ==
    IF \A i \in 1..Len(s) : IsSpace(s[i]) THEN << >>
    ELSE LET lo == CHOOSE i \in 1..Len(s) :
                     ~IsSpace(s[i]) /\ \A j \in 1..(i - 1) : IsSpace(s[j])
             hi == CHOOSE i \in 1..Len(s) :
                     ~IsSpace(s[i]) /\ \A j \in (i + 1)..Len(s) : IsSpace(s[j])
         IN  SubSeq(s, lo, hi)

-----------------------------------------------------------------------------
(* HMAC helpers *)

(* config.HMAC_SECRET, folded to the seed of the keyed hash below *)
HMAC_SECRET == 4099

(* hexdigest() of a SHA-256 digest: 64 lowercase hex characters *)
DigestHexLen == 64

HexChar(d) == IF d < 10 THEN 48 + d ELSE 87 + d

RECURSIVE KeyedHash(_, _)
KeyedHash(s, h) ==
    IF s = << >> THEN h
    ELSE KeyedHash(Tail(s), (h * 31 + Head(s) + 1) % 65521)

Pow16(k) == CASE k = 0 -> 1 [] k = 1 -> 16 [] k = 2 -> 256 [] OTHER -> 4096

(* sign_student_id: a keyed hash of the identity, hex-encoded lowercase.   *)
(* HMAC-SHA256 itself is replaced by a keyed polynomial hash whose first   *)
(* four digits determine the hash value; what the codec relies on is kept: *)
(* the result is a function of the identity and the secret alone, and is   *)
(* DigestHexLen characters of 0-9a-f.                                      *)
sign_student_id(student_id) ==
    LET h == KeyedHash(student_id, HMAC_SECRET)
    IN  [ i \in 1..DigestHexLen |->
            HexChar(((h \div Pow16((i - 1) % 4)) + i) % 16) ]

(* hmac.compare_digest on two str raises TypeError unless both are ASCII *)
CompareDigestRaises(a, b) == ~IsAscii(a) \/ ~IsAscii(b)
compare_digest(a, b) == a = b

(* payload.split(":", 1), for a payload that holds a separator *)
split_payload(payload) ==
    LET i == IndexOf(payload, Colon)
    IN  << SubSeq(payload, 1, i - 1), SubSeq(payload, i + 1, Len(payload)) >>

make_payload(student_id) ==
    student_id \o << Colon >> \o sign_student_id(student_id)

(* whether verify_payload raises instead of returning *)
VerifyRaises(payload) ==
    /\ IndexOf(payload, Colon) # 0
    /\ CompareDigestRaises(split_payload(payload)[2],
                           sign_student_id(split_payload(payload)[1]))

(* A faulty verify_payload: trusts any payload that holds a separator *)
verify_payload_unchecked(payload) ==
    IF IndexOf(payload, Colon) = 0 THEN None
    ELSE Some(split_payload(payload)[1])

(* verify_payload: the identity, or None *)
verify_payload(payload) ==
    IF IndexOf(payload, Colon) = 0 THEN None
    ELSE LET parts == split_payload(payload)
             expected == sign_student_id(parts[1])
         IN  IF compare_digest(parts[2], expected) THEN Some(parts[1]) ELSE None

-----------------------------------------------------------------------------
(* The reader and the card behind connection.transmit                      *)
(*                                                                         *)
(* A card is [atr, mem]: mem is its user memory as one byte sequence.  An  *)
(* NTAG card holds pages 4 .. 3 + NtagUserPages of 4 bytes; a MIFARE       *)
(* Classic card holds blocks 4 .. 10 of 16 bytes (the data blocks of       *)
(* sectors 1 and 2 and the trailer 7 between them).  A session is the      *)
(* state of one connection: the card memory, the sector the card has       *)
(* authenticated, the number of commands transmitted, their log, and the   *)
(* reply to the last one.  A fail script [at, kind] makes the at-th        *)
(* transmit of the session fail in the given way (at = 0: none fails).     *)

TAG_TYPE_NTAG == 68
TAG_TYPE_MIFARE_1K == 1
TAG_TYPE_MIFARE_4K == 2
TAG_TYPE_DESFIRE == 3

(* A faulty MIFARE_DATA_BLOCKS: six contiguous blocks from block 4 *)
ContiguousBlocks == << 4, 5, 6, 7, 8, 9 >>

MIFARE_DATA_BLOCKS == << 4, 5, 6, 8, 9, 10 >>

(* user pages of the NTAG cards of the model (an NTAG213 has 36) *)
NtagUserPages == 36
NtagFirstPage == 4
MifareFirstBlock == 4
MifareLastBlock == 10

(* A faulty _sector_of_block: every block counted in one sector *)
SectorFlat(block) == 0

_sector_of_block(block) == block \div 4

Cmd(op, addr, data) == [ op |-> op, addr |-> addr, data |-> data ]

SW_OK == << 144, 0 >>
SW_ERR == << 99, 0 >>

NewSession(mem) ==
    [ mem |-> mem, authed |-> -1, k |-> 0, tx |-> << >>,
      reply |-> [ exc |-> FALSE, sw |-> SW_OK, data |-> << >> ] ]

OkReply(data) == [ exc |-> FALSE, sw |-> SW_OK, data |-> data ]
ErrReply == [ exc |-> FALSE, sw |-> SW_ERR, data |-> << >> ]

(* what the card and the reader answer to a command that gets through:     *)
(* [reply, mem, authed]                                                    *)
CardReply(st, cmd) ==
    LET same(r) == [ reply |-> r, mem |-> st.mem, authed |-> st.authed ]
        po == 4 * (cmd.addr - NtagFirstPage)
        bo == 16 * (cmd.addr - MifareFirstBlock)
        inMifare == cmd.addr \in MifareFirstBlock..MifareLastBlock
        splice(off) == [ i \in 1..Len(st.mem) |->
                           IF i \in (off + 1)..(off + Len(cmd.data))
                           THEN cmd.data[i - off] ELSE st.mem[i] ]
    IN  CASE cmd.op = "ntag_read" ->
               IF cmd.addr >= NtagFirstPage /\ po + 16 <= Len(st.mem)
               THEN same(OkReply(<< 213, 67, 0 >> \o SubSeq(st.mem, po + 1, po + 16)))
               ELSE same(OkReply(<< 213, 67, 1 >>))
          [] cmd.op = "ntag_write" ->
               IF cmd.addr >= NtagFirstPage /\ po + 4 <= Len(st.mem)
               THEN [ reply |-> OkReply(<< 213, 67, 0 >>), mem |-> splice(po),
                      authed |-> st.authed ]
               ELSE same(OkReply(<< 213, 67, 1 >>))
          [] cmd.op = "load_key" -> same(OkReply(<< >>))
          [] cmd.op = "auth" ->
               IF inMifare
               THEN [ reply |-> OkReply(<< >>), mem |-> st.mem,
                      authed |-> _sector_of_block(cmd.addr) ]
               ELSE same(ErrReply)
          [] cmd.op = "mf_read" ->
               IF inMifare /\ st.authed = _sector_of_block(cmd.addr)
               THEN same(OkReply(SubSeq(st.mem, bo + 1, bo + 16)))
               ELSE same(ErrReply)
          [] cmd.op = "mf_write" ->
               IF inMifare /\ st.authed = _sector_of_block(cmd.addr)
               THEN [ reply |-> OkReply(<< >>), mem |-> splice(bo),
                      authed |-> st.authed ]
               ELSE same(ErrReply)
          [] OTHER -> same(OkReply(<< >>))

(* a reply spoilt the way the fail script says *)
Spoil(reply, kind) ==
    CASE kind = "exc" -> [ reply EXCEPT !.exc = TRUE ]
      [] kind = "sw" -> [ reply EXCEPT !.sw = SW_ERR ]
      [] kind = "marker" -> [ reply EXCEPT !.data = << 213, 65, 0 >> ]
      [] kind = "status" -> [ reply EXCEPT !.data = << 213, 67, 1 >> ]
      [] OTHER -> [ reply EXCEPT !.data = << >> ]

(* connection.transmit(apdu): the session after the command *)
Transmit(st, cmd, fail) ==
    LET k == st.k + 1
        good == CardReply(st, cmd)
        log == Append(st.tx, [ op |-> cmd.op, addr |-> cmd.addr ])
    IN  IF fail.at = k
        THEN [ st EXCEPT !.k = k, !.tx = log,
                         !.reply = Spoil(good.reply, fail.kind) ]
        ELSE [ mem |-> good.mem, authed |-> good.authed, k |-> k, tx |-> log,
               reply |-> good.reply ]

(* _ntag_transceive, after the transmit: the payload bytes, or None *)
_ntag_transceive(reply) ==
    IF reply.exc THEN None
    ELSE IF reply.sw # SW_OK THEN None
    ELSE IF Len(reply.data) < 3 \/ reply.data[1] # 213 \/ reply.data[2] # 67 THEN None
    ELSE IF reply.data[3] # 0 THEN None
    ELSE Some(SubSeq(reply.data, 4, Len(reply.data)))

(* the status test shared by _mifare_load_key, _mifare_auth_block,         *)
(* _mifare_read_block and _mifare_write_block                              *)
MifareOk(reply) == ~reply.exc /\ reply.sw = SW_OK

(* the tail of read_tag_data and read_tag_data_mifare: cut at the first    *)
(* zero byte, decode as ASCII, strip                                       *)
DecodeRaw(raw_bytes) ==
    IF raw_bytes = << >> THEN None
    ELSE LET end == IndexOf(raw_bytes, Nul)
             cut == IF end = 0 THEN raw_bytes ELSE SubSeq(raw_bytes, 1, end - 1)
         IN  IF cut = << >> THEN None
             ELSE IF ~IsAscii(cut) THEN None
             ELSE Some(Strip(cut))

MaxPages == 20

(* the while loop of read_tag_data: [st, raw] *)
RECURSIVE NtagReadLoop(_, _, _, _, _)
NtagReadLoop(st, page, end_page, raw_bytes, fail) ==
    IF ~(page < end_page) THEN [ st |-> st, raw |-> raw_bytes ]
    ELSE LET st1 == Transmit(st, Cmd("ntag_read", page, << >>), fail)
             resp == _ntag_transceive(st1.reply)
         IN  IF IsNone(resp) THEN [ st |-> st1, raw |-> raw_bytes ]
             ELSE NtagReadLoop(st1, page + 4, end_page,
                               raw_bytes \o SubSeq(Val(resp), 1, 16), fail)

(* read_tag_data: [ret, st] *)
read_tag_data(st, fail) ==
    LET r == NtagReadLoop(st, 4, 4 + MaxPages, << >>, fail)
    IN  [ ret |-> DecodeRaw(r.raw), st |-> r.st ]

(* zero padding to a multiple of m bytes *)
PadTo(data, m) == data \o Rep(Nul, (m - (Len(data) % m)) % m)

(* the for loop of write_tag_data: [ok, st] *)
RECURSIVE NtagWriteLoop(_, _, _, _, _)
NtagWriteLoop(st, data, i, page, fail) ==
    IF ~(i < Len(data)) THEN [ ok |-> TRUE, st |-> st ]
    ELSE LET chunk == SubSeq(data, i + 1, i + 4)
             st1 == Transmit(st, Cmd("ntag_write", page, chunk), fail)
             resp == _ntag_transceive(st1.reply)
         IN  IF IsNone(resp) THEN [ ok |-> FALSE, st |-> st1 ]
             ELSE NtagWriteLoop(st1, data, i + 4, page + 1, fail)

(* payload.encode("ascii") raises UnicodeEncodeError *)
EncodeRaises(payload) == ~IsAscii(payload)

(* write_tag_data, for a payload that encodes: [ok, st] *)
write_tag_data(st, payload, fail) ==
    LET data == PadTo(payload \o << Nul >>, 4)
    IN  NtagWriteLoop(st, data, 0, 4, fail)

-----------------------------------------------------------------------------
(* MIFARE Classic communication *)

_mifare_load_key(st, fail) == Transmit(st, Cmd("load_key", 0, << >>), fail)
_mifare_auth_block(st, block, fail) == Transmit(st, Cmd("auth", block, << >>), fail)
_mifare_read_block(st, block, fail) == Transmit(st, Cmd("mf_read", block, << >>), fail)
_mifare_write_block(st, block, data_bytes, fail) ==
    Transmit(st, Cmd("mf_write", block, data_bytes), fail)

(* the for loop of read_tag_data_mifare over MIFARE_DATA_BLOCKS[idx..]:    *)
(* [ok, st, raw]                                                           *)
RECURSIVE MifareReadLoop(_, _, _, _, _)
MifareReadLoop(st, idx, last_sector, raw_bytes, fail) ==
    IF idx > Len(MIFARE_DATA_BLOCKS) THEN [ ok |-> TRUE, st |-> st, raw |-> raw_bytes ]
    ELSE LET block == MIFARE_DATA_BLOCKS[idx]
             sector == _sector_of_block(block)
             st1 == IF sector # last_sector
                    THEN _mifare_auth_block(st, block, fail) ELSE st
         IN  IF sector # last_sector /\ ~MifareOk(st1.reply)
             THEN [ ok |-> FALSE, st |-> st1, raw |-> raw_bytes ]
             ELSE LET st2 == _mifare_read_block(st1, block, fail)
                  IN  IF ~MifareOk(st2.reply)
                      THEN [ ok |-> FALSE, st |-> st2, raw |-> raw_bytes ]
                      ELSE MifareReadLoop(st2, idx + 1, sector,
                                          raw_bytes \o st2.reply.data, fail)

(* read_tag_data_mifare: [ret, st] *)
read_tag_data_mifare(st, fail) ==
    LET st0 == _mifare_load_key(st, fail)
    IN  IF ~MifareOk(st0.reply) THEN [ ret |-> None, st |-> st0 ]
        ELSE LET r == MifareReadLoop(st0, 1, -1, << >>, fail)
             IN  IF ~r.ok THEN [ ret |-> None, st |-> r.st ]
                 ELSE [ ret |-> DecodeRaw(r.raw), st |-> r.st ]

(* A faulty MifareTooLarge: an off-by-one capacity test *)
MifareTooLargeOffByOne(data) == Len(data) >= Len(MIFARE_DATA_BLOCKS) * 16

(* the capacity test of write_tag_data_mifare: len(data) > max_capacity *)
MifareTooLarge(data) == Len(data) > Len(MIFARE_DATA_BLOCKS) * 16

(* the for loop of write_tag_data_mifare: [ok, st] *)
RECURSIVE MifareWriteLoop(_, _, _, _, _, _)
MifareWriteLoop(st, data, i, block_idx, last_sector, fail) ==
    IF ~(i < Len(data)) THEN [ ok |-> TRUE, st |-> st ]
    ELSE IF block_idx >= Len(MIFARE_DATA_BLOCKS) THEN [ ok |-> TRUE, st |-> st ]
    ELSE LET block == MIFARE_DATA_BLOCKS[block_idx + 1]
             sector == _sector_of_block(block)
             st1 == IF sector # last_sector
                    THEN _mifare_auth_block(st, block, fail) ELSE st
         IN  IF sector # last_sector /\ ~MifareOk(st1.reply)
             THEN [ ok |-> FALSE, st |-> st1 ]
             ELSE LET chunk == SubSeq(data, i + 1, i + 16)
                      st2 == _mifare_write_block(st1, block, chunk, fail)
                  IN  IF ~MifareOk(st2.reply) THEN [ ok |-> FALSE, st |-> st2 ]
                      ELSE MifareWriteLoop(st2, data, i + 16, block_idx + 1,
                                           sector, fail)

(* write_tag_data_mifare, for a payload that encodes: [ok, st] *)
write_tag_data_mifare(st, payload, fail) ==
    LET data == payload \o << Nul >>
    IN  IF MifareTooLarge(data) THEN [ ok |-> FALSE, st |-> st ]
        ELSE LET padded == PadTo(data, 16)
                 st0 == _mifare_load_key(st, fail)
             IN  IF ~MifareOk(st0.reply) THEN [ ok |-> FALSE, st |-> st0 ]
                 ELSE MifareWriteLoop(st0, padded, 0, 0, -1, fail)

-----------------------------------------------------------------------------
(* Tag type detection *)

PCSC_RID == << 160, 0, 0, 3, 6 >>

Min(S) == CHOOSE x \in S : \A y \in S : x <= y

(* _get_tag_type_byte: the byte two positions after the first PC/SC RID    *)
(* that has one, or None (indices here are Python's, from 0)               *)
_get_tag_type_byte(atr) ==
    LET hits == { i \in 0..(Len(atr) - Len(PCSC_RID) - 1) :
                    /\ SubSeq(atr, i + 1, i + Len(PCSC_RID)) = PCSC_RID
                    /\ i + Len(PCSC_RID) + 2 < Len(atr) }
    IN  IF hits = {} THEN None
        ELSE Some(atr[Min(hits) + Len(PCSC_RID) + 2 + 1])

(* TAG_TYPES.get(type_byte, "unknown") *)
TagName(type_byte) ==
    CASE type_byte = Some(TAG_TYPE_NTAG) -> "MIFARE Ultralight / NTAG"
      [] type_byte = Some(TAG_TYPE_MIFARE_1K) -> "MIFARE Classic 1K"
      [] type_byte = Some(TAG_TYPE_MIFARE_4K) -> "MIFARE Classic 4K"
      [] type_byte = Some(TAG_TYPE_DESFIRE) -> "MIFARE DESFire"
      [] OTHER -> "unknown"

_is_mifare_classic(type_byte) ==
    type_byte \in { Some(TAG_TYPE_MIFARE_1K), Some(TAG_TYPE_MIFARE_4K) }

IsNtag(type_byte) == type_byte = Some(TAG_TYPE_NTAG)

(* the ATR of a PC/SC contactless storage card whose card name is 00 <t> *)
AtrOf(t) ==
    << 59, 143, 128, 1, 128, 79, 12 >> \o PCSC_RID \o << 3, 0, t >>
        \o << 0, 0, 0, 0, 106 >>

(* an ATR that holds no PC/SC RID (a contact-less CPU card) *)
AtrNoRid == << 59, 128, 128, 1, 1 >>

(* _reset_rf_field: the commands that reach the reader.  rfail = 1: the    *)
(* first transmit raises and the second is not sent; any exception is      *)
(* swallowed.                                                              *)
(* A faulty _reset_rf_field: nothing is transmitted *)
ResetSkipped(rfail) == << >>

_reset_rf_field(rfail) ==
    IF rfail = 1 THEN << [ op |-> "rf_off", addr |-> 0 ] >>
    ELSE << [ op |-> "rf_off", addr |-> 0 ], [ op |-> "rf_on", addr |-> 0 ] >>

-----------------------------------------------------------------------------
(* Bridge state *)

DEBOUNCE_SECONDS == 3
(* the clock counts ticks of one POLL_INTERVAL (0.5 s) *)
TicksPerSecond == 2
DebounceTicks == DEBOUNCE_SECONDS * TicksPerSecond

(* A faulty should_debounce: a suppressed scan restarts the window *)
should_debounce_restarting(id, time, student_id, t) ==
    IF Some(student_id) = id /\ (t - time) < DebounceTicks
    THEN [ suppress |-> TRUE, id |-> id, time |-> t ]
    ELSE [ suppress |-> FALSE, id |-> Some(student_id), time |-> t ]

(* BridgeState.should_debounce at time t: the answer and the new           *)
(* last_scan_id, last_scan_time                                            *)
should_debounce(id, time, student_id, t) ==
    IF Some(student_id) = id /\ (t - time) < DebounceTicks
    THEN [ suppress |-> TRUE, id |-> id, time |-> time ]
    ELSE [ suppress |-> FALSE, id |-> Some(student_id), time |-> t ]

(* BridgeState.should_debounce_error at time t *)
should_debounce_error(ev, time, event, t) ==
    IF Some(event) = ev /\ (t - time) < DebounceTicks
    THEN [ suppress |-> TRUE, ev |-> ev, time |-> time ]
    ELSE [ suppress |-> FALSE, ev |-> Some(event), time |-> t ]

(* A faulty clear_error: leaves the error debounce as it is *)
clear_error_noop(ev) == ev

(* BridgeState.clear_error: the new last_error_event *)
clear_error(ev) == None

-----------------------------------------------------------------------------
(* Inputs of the model *)

NumClients == 2
MaxTime == 7
MaxIdLen == 2
MaxPayloadLen == 97

AllClients == 1..NumClients

Str42 == << 52, 50 >>
Str7 == << 55 >>
StrNonAscii == << 233 >>

Result(event) ==
    [ event |-> event, success |-> FALSE, student_id |-> None,
      tag_type |-> "", raw |-> None ]

NoResult == Result("")

Msg(type) ==
    [ type |-> type, connected |-> FALSE, success |-> FALSE,
      student_id |-> None, message |-> "" ]

NoBroadcast ==
    [ active |-> FALSE, msg |-> Msg(""), cur |-> 0, todo |-> {}, size |-> 0,
      gone |-> {}, then |-> "", start |-> {} ]

(* What the claims need remembered: whether a write_tag set the pending    *)
(* write since the running cycle took one (line 551); the last tag_scan    *)
(* broadcast; the last event dispatched, when, and whether it broadcast an *)
(* error; whether no invalid_tag was dispatched since the start or the     *)
(* last valid_tag or write_result; the connectivity of the last cycle that *)
(* was classified; the value the last reader_status broadcast carried;     *)
(* whether a cancel_write was processed with no write_tag accepted since;  *)
(* for each kind of error, when its last broadcast since the start or the  *)
(* last valid_tag or write_result was made.                                *)
NoHist ==
    [ reqSince |-> FALSE,
      cancelled |-> FALSE,
      errB |-> [ k \in { "invalid_tag", "unsupported_tag" } |-> None ],
      scanB |-> None,
      last |-> [ event |-> "", time |-> 0, didErr |-> FALSE ],
      errFresh |-> TRUE,
      conn |-> None,
      statusB |-> None ]

(* NTAG user memory holding the bytes data from page 4 on *)
NtagMem(data) == data \o Rep(Nul, 4 * NtagUserPages - Len(data))

(* MIFARE memory, blocks 4..10, holding the bytes data in the data blocks *)
MifareMem(data) ==
    LET d == data \o Rep(Nul, 96 - Len(data))
    IN  SubSeq(d, 1, 48) \o Rep(255, 16) \o SubSeq(d, 49, 96)

(* a stored payload whose signature is not the identity's *)
ForgedPayload == Str42 \o << Colon >> \o sign_student_id(Str7)

CardNtag(data) == [ atr |-> AtrOf(TAG_TYPE_NTAG), mem |-> NtagMem(data) ]
CardMifare(t, data) == [ atr |-> AtrOf(t), mem |-> MifareMem(data) ]
CardOther(atr) == [ atr |-> atr, mem |-> << >> ]

AllCards ==
    { CardNtag(<< >>),
      CardNtag(make_payload(Str42) \o << Nul >>),
      CardNtag(make_payload(Str7) \o << Nul >>),
      CardNtag(ForgedPayload \o << Nul >>),
      CardMifare(TAG_TYPE_MIFARE_1K, << >>),
      CardMifare(TAG_TYPE_MIFARE_4K, make_payload(Str7) \o << Nul >>),
      CardOther(AtrOf(TAG_TYPE_DESFIRE)),
      CardOther(AtrOf(38)),
      CardOther(AtrNoRid) }

NtagFailKinds == { "exc", "sw", "marker", "status", "short" }
MifareFailKinds == { "exc", "sw" }
FailScripts(ats, kinds) == { [ at |-> a, kind |-> k ] : a \in ats, k \in kinds }

-----------------------------------------------------------------------------
(* The initial state: a BridgeState just constructed, no card on the       *)
(* reader, the browsers of e.clients0 connected and idle                   *)

InitWith(e, u) ==
    /\ clients = e.clients0
    /\ write_pending = None
    /\ last_scan_id = None
    /\ last_scan_time = 0
    /\ reader_connected = FALSE
    /\ last_error_event = None
    /\ last_error_time = 0
    /\ now = 0
    /\ readerPresent = e.reader0
    /\ card = None
    /\ cstate = [ c \in AllClients |-> IF c \in e.clients0 THEN "open" ELSE "absent" ]
    /\ w_pc = "idle"
    /\ w_type = None
    /\ w_sid = None
    /\ w_success = FALSE
    /\ w_result = NoResult
    /\ conn = "none"
    /\ tx = << >>
    /\ l_pc = "await"
    /\ was_connected = None
    /\ l_result = NoResult
    /\ bc = NoBroadcast
    /\ emitted = << >>
    /\ hist = NoHist
    /\ env = e
    /\ unit = u

NoUnit == [ kind |-> "none" ]

-----------------------------------------------------------------------------
(* poll_nfc_blocking, on the worker thread.  The steps are cut where the   *)
(* cycle reads or writes state.write_pending, which handle_client changes  *)
(* on the event-loop thread.                                               *)

bridgeVars == << last_scan_id, last_scan_time, reader_connected,
                 last_error_event, last_error_time >>
loopVars == << l_pc, was_connected, l_result, bc, emitted >>
worldVars == << now, readerPresent, cstate, env, unit >>

ReadFails == FailScripts(env.readFailAt, env.failKinds)
WriteFails == FailScripts(env.writeFailAt, env.failKinds)

(* connect_to_card: "nocard" when connect() raises, "atr" when getATR()    *)
(* raises CardConnectionException after connect() returned, else "ok"      *)
ConnectOutcomes == IF IsNone(card) THEN { "nocard" } ELSE { "ok", "nocard", "atr" }

(* A faulty UnsupportedTag: only unknown type codes are unsupported *)
UnsupportedTagByName(type_byte) == TagName(type_byte) = "unknown"

(* not is_mifare and not is_ntag *)
UnsupportedTag(type_byte) == ~_is_mifare_classic(type_byte) /\ ~IsNtag(type_byte)

(* lines 582-586, the finally of poll_nfc_blocking: connection.disconnect() *)
(* closes the log of what the cycle did on the connection                   *)
Disconnect == << [ op |-> "disconnect", addr |-> 0 ] >>

(* lines 531-547: get_reader, connect_to_card, the unsupported-tag exit *)
PollStart ==
    /\ l_pc = "await" /\ w_pc = "idle"
    /\ UNCHANGED << hist, w_sid, w_success >>
    /\ IF ~readerPresent
       THEN /\ w_result' = Result("no_reader")
            /\ w_pc' = "returned" /\ conn' = "none" /\ tx' = << >>
            /\ w_type' = None
       ELSE \E oc \in ConnectOutcomes :
              CASE oc = "nocard" ->
                     /\ w_result' = Result("no_card")
                     /\ w_pc' = "returned" /\ conn' = "none" /\ tx' = << >>
                     /\ w_type' = None
                [] oc = "atr" ->
                     /\ w_result' = Result("no_card")
                     /\ w_pc' = "returned" /\ conn' = "open" /\ tx' = << >>
                     /\ w_type' = None
                [] OTHER ->
                     LET type_byte == _get_tag_type_byte(Val(card).atr)
                     IN  /\ w_type' = type_byte
                         /\ IF UnsupportedTag(type_byte)
                            THEN \E rfail \in env.resetFail :
                                   /\ tx' = _reset_rf_field(rfail) \o Disconnect
                                   /\ w_result' = [ Result("unsupported_tag") EXCEPT
                                                      !.tag_type = TagName(type_byte) ]
                                   /\ conn' = "closed"
                                   /\ w_pc' = "returned"
                            ELSE /\ tx' = << >>
                                 /\ w_result' = NoResult
                                 /\ conn' = "open"
                                 /\ w_pc' = "check"
    /\ UNCHANGED << clients, write_pending, card, bridgeVars, loopVars, worldVars >>

(* line 550 when a write is pending; lines 566-580 and the finally when    *)
(* none is                                                                 *)
PollCheckPending ==
    /\ w_pc = "check"
    /\ IF ~IsNone(write_pending)
       THEN /\ w_pc' = "take"
            /\ UNCHANGED << w_result, conn, tx >>
       ELSE \E fail \in ReadFails, rfail \in env.resetFail :
              LET st == NewSession(Val(card).mem)
                  r == IF _is_mifare_classic(w_type)
                       THEN read_tag_data_mifare(st, fail)
                       ELSE read_tag_data(st, fail)
                  raw == r.ret
              IN  /\ conn' = "closed"
                  /\ IF IsNone(raw)
                     THEN /\ tx' = r.st.tx \o _reset_rf_field(rfail) \o Disconnect
                          /\ w_result' = Result("empty_tag")
                          /\ w_pc' = "returned"
                     ELSE IF VerifyRaises(Val(raw))
                     THEN /\ tx' = r.st.tx \o Disconnect
                          /\ w_result' = NoResult
                          /\ w_pc' = "raised"
                     ELSE LET student_id == verify_payload(Val(raw))
                          IN  /\ tx' = r.st.tx \o Disconnect
                              /\ w_pc' = "returned"
                              /\ w_result' =
                                   IF IsNone(student_id)
                                   THEN [ Result("invalid_tag") EXCEPT !.raw = raw ]
                                   ELSE [ Result("valid_tag") EXCEPT
                                            !.student_id = student_id ]
    /\ UNCHANGED << clients, write_pending, card, w_type, w_sid, w_success, hist,
                    bridgeVars, loopVars, worldVars >>

(* lines 551-552: student_id = state.write_pending; make_payload raises    *)
(* AttributeError when a cancel_write emptied it since line 550            *)
PollTakePending ==
    /\ w_pc = "take"
    /\ w_sid' = write_pending
    /\ IF IsNone(write_pending)
       THEN /\ w_pc' = "raised" /\ conn' = "closed"
            /\ tx' = tx \o Disconnect
            /\ UNCHANGED hist
       ELSE /\ w_pc' = "write" /\ UNCHANGED << conn, tx >>
            /\ hist' = [ hist EXCEPT !.reqSince = FALSE ]
    /\ UNCHANGED << clients, write_pending, card, w_type, w_success, w_result,
                    bridgeVars, loopVars, worldVars >>

(* lines 553-556: the family's writer; payload.encode("ascii") raises      *)
(* before any command is sent                                              *)
PollWrite ==
    /\ w_pc = "write"
    /\ LET payload == make_payload(Val(w_sid))
       IN  IF EncodeRaises(payload)
           THEN /\ w_pc' = "raised" /\ conn' = "closed"
                /\ tx' = tx \o Disconnect
                /\ UNCHANGED << card, w_success >>
           ELSE \E fail \in WriteFails :
                  LET st == NewSession(Val(card).mem)
                      r == IF _is_mifare_classic(w_type)
                           THEN write_tag_data_mifare(st, payload, fail)
                           ELSE write_tag_data(st, payload, fail)
                  IN  /\ card' = Some([ Val(card) EXCEPT !.mem = r.st.mem ])
                      /\ tx' = r.st.tx
                      /\ w_success' = r.ok
                      /\ w_pc' = "clear"
                      /\ UNCHANGED conn
    /\ UNCHANGED << clients, write_pending, w_type, w_sid, w_result, hist,
                    bridgeVars, loopVars, worldVars >>

(* A faulty WriteResult: the identity is read again from the shared state *)
WriteResultFromState(success, student_id) ==
    [ Result("write_result") EXCEPT !.success = success, !.student_id = write_pending ]

(* lines 560-564: the event of a write attempt *)
WriteResult(success, student_id) ==
    [ Result("write_result") EXCEPT !.success = success, !.student_id = student_id ]

(* lines 557-564 and the finally *)
PollClear ==
    /\ w_pc = "clear"
    /\ write_pending' = None
    /\ \E rfail \in env.resetFail :
         tx' = (IF w_success THEN tx ELSE tx \o _reset_rf_field(rfail)) \o Disconnect
    /\ w_result' = WriteResult(w_success, w_sid)
    /\ conn' = "closed"
    /\ w_pc' = "returned"
    /\ UNCHANGED << clients, card, w_type, w_sid, w_success, hist,
                    bridgeVars, loopVars, worldVars >>

-----------------------------------------------------------------------------
(* nfc_poll_loop and broadcast, on the event loop.  A step runs from one   *)
(* await to the next: awaiting the executor, a send inside broadcast, the  *)
(* sleep.                                                                  *)

(* broadcast(message) with clients to send to: the iterator over           *)
(* state.clients has yielded ws and the coroutine awaits ws.send           *)
BeginBroadcast(message, cl, ws, then) ==
    [ active |-> TRUE, msg |-> message, cur |-> ws, todo |-> cl \ { ws },
      size |-> Cardinality(cl), gone |-> {}, then |-> then, start |-> cl ]

(* lines 619-653: the dispatch on the event, to the sleep or to the first  *)
(* send of its broadcast.  em is what the cycle has emitted so far, cl the *)
(* clients at this point.                                                  *)
HandleEvent(res, em, cl, h) ==
    LET event == res.event
        cleared == IF event \in { "write_result", "valid_tag" }
                   THEN clear_error(last_error_event) ELSE last_error_event
        scan == IF event = "valid_tag"
                THEN should_debounce(last_scan_id, last_scan_time,
                                     Val(res.student_id), now)
                ELSE [ suppress |-> TRUE, id |-> last_scan_id,
                       time |-> last_scan_time ]
        err == IF event \in { "invalid_tag", "unsupported_tag", "empty_tag" }
               THEN should_debounce_error(cleared, last_error_time, event, now)
               ELSE [ suppress |-> TRUE, ev |-> cleared, time |-> last_error_time ]
        out == CASE event = "write_result" ->
                      Some([ Msg("write_complete") EXCEPT
                               !.success = res.success,
                               !.student_id = res.student_id ])
                 [] event = "valid_tag" /\ ~scan.suppress ->
                      Some([ Msg("tag_scan") EXCEPT !.student_id = res.student_id ])
                 [] event = "invalid_tag" /\ ~err.suppress ->
                      Some([ Msg("error") EXCEPT
                               !.message = "Invalid or unsigned tag" ])
                 [] event = "unsupported_tag" /\ ~err.suppress ->
                      Some([ Msg("error") EXCEPT
                               !.message = "Unsupported tag type: " \o res.tag_type ])
                 [] OTHER -> None
        didScan == event = "valid_tag" /\ ~scan.suppress
        didErr == event \in { "invalid_tag", "unsupported_tag" } /\ ~err.suppress
    IN  /\ last_scan_id' = scan.id
        /\ last_scan_time' = scan.time
        /\ last_error_event' = err.ev
        /\ last_error_time' = err.time
        /\ emitted' = IF IsNone(out) THEN em ELSE Append(em, Val(out))
        /\ hist' = IF ~env.history THEN h
                   ELSE [ h EXCEPT
                       !.scanB = IF didScan
                                 THEN Some([ id |-> res.student_id, time |-> now ])
                                 ELSE @,
                       !.errB =
                          IF event \in { "write_result", "valid_tag" }
                          THEN [ k \in DOMAIN @ |-> None ]
                          ELSE IF didErr THEN [ @ EXCEPT ![event] = Some(now) ]
                          ELSE @,
                       !.errFresh =
                          IF event = "invalid_tag" THEN FALSE
                          ELSE IF event \in { "write_result", "valid_tag" } THEN TRUE
                          ELSE @,
                       !.last = [ event |-> event, time |-> now,
                                  didErr |-> didErr ] ]
        /\ IF IsNone(out) \/ cl = {}
           THEN /\ bc' = NoBroadcast
                /\ l_pc' = "sleep"
           ELSE \E ws \in cl :
                  /\ bc' = BeginBroadcast(Val(out), cl, ws, "sleep")
                  /\ l_pc' = "bcast"

(* the future of run_in_executor is taken: the call's locals are gone *)
WorkerDone ==
    /\ w_pc' = "idle"
    /\ w_type' = None /\ w_sid' = None /\ w_success' = FALSE
    /\ w_result' = NoResult /\ conn' = "none" /\ tx' = << >>

(* lines 596-600: the executor call raised; log, sleep, continue *)
LoopPollRaised ==
    /\ l_pc = "await" /\ w_pc = "raised"
    /\ WorkerDone
    /\ l_pc' = "sleep"
    /\ emitted' = << >>
    /\ hist' = [ hist EXCEPT !.reqSince = FALSE ]
    /\ UNCHANGED << clients, write_pending, card, bridgeVars, worldVars,
                    was_connected, l_result, bc >>

(* A faulty ConnectivityChanged: every cycle counts as a transition *)
ConnectivityChangedAlways(is_connected, was) == TRUE

(* lines 609-610: is_connected != was_connected *)
ConnectivityChanged(is_connected, was) == Some(is_connected) # was

(* lines 606-617, then the dispatch unless broadcast suspends in a send *)
LoopResume ==
    /\ l_pc = "await" /\ w_pc = "returned"
    /\ WorkerDone
    /\ l_result' = w_result
    /\ LET event == w_result.event
           is_connected == event # "no_reader"
           changed == ConnectivityChanged(is_connected, was_connected)
           status == [ Msg("reader_status") EXCEPT !.connected = is_connected ]
           h == [ hist EXCEPT !.reqSince = FALSE,
                              !.conn = Some(is_connected),
                              !.statusB = IF changed THEN Some(is_connected) ELSE @ ]
       IN  /\ was_connected' = IF changed THEN Some(is_connected) ELSE was_connected
           /\ reader_connected' = IF changed THEN is_connected ELSE reader_connected
           /\ IF changed /\ clients # {}
              THEN /\ \E ws \in clients :
                        bc' = BeginBroadcast(status, clients, ws, "handle")
                   /\ l_pc' = "bcast"
                   /\ emitted' = << status >>
                   /\ hist' = h
                   /\ UNCHANGED << last_scan_id, last_scan_time, last_error_event,
                                   last_error_time >>
              ELSE HandleEvent(w_result, IF changed THEN << status >> ELSE << >>,
                               clients, h)
    /\ UNCHANGED << clients, write_pending, card, worldVars >>

(* lines 472-477: the send to bc.cur ends (ConnectionClosed when the       *)
(* connection is closed), then the set iterator is asked for the next      *)
(* client: RuntimeError when the set changed size, which nothing in        *)
(* nfc_poll_loop catches                                                   *)
BroadcastStep ==
    /\ l_pc = "bcast"
    /\ LET gone == IF cstate[bc.cur] = "open" THEN bc.gone ELSE bc.gone \cup { bc.cur }
           left == bc.todo \cap clients
       IN  IF Cardinality(clients) # bc.size
           THEN /\ l_pc' = "dead"
                /\ bc' = NoBroadcast
                /\ UNCHANGED << clients, last_scan_id, last_scan_time,
                                last_error_event, last_error_time, emitted, hist >>
           ELSE IF left # {}
           THEN /\ \E ws \in left :
                     bc' = [ bc EXCEPT !.cur = ws, !.todo = left \ { ws },
                                       !.gone = gone ]
                /\ UNCHANGED << clients, l_pc, last_scan_id, last_scan_time,
                                last_error_event, last_error_time, emitted, hist >>
           ELSE /\ clients' = clients \ gone
                /\ IF bc.then = "handle"
                   THEN HandleEvent(l_result, emitted, clients \ gone, hist)
                   ELSE /\ l_pc' = "sleep"
                        /\ bc' = NoBroadcast
                        /\ UNCHANGED << last_scan_id, last_scan_time,
                                        last_error_event, last_error_time,
                                        emitted, hist >>
    /\ UNCHANGED << write_pending, card, reader_connected, worldVars, was_connected,
                    l_result, w_pc, w_type, w_sid, w_success, w_result, conn, tx >>

(* await asyncio.sleep(config.POLL_INTERVAL): at least one tick passes *)
SleepDone ==
    /\ l_pc = "sleep"
    /\ l_pc' = "await"
    /\ \E d \in env.ticks : now + d <= MaxTime /\ now' = now + d
    /\ l_result' = NoResult /\ emitted' = << >>
    /\ UNCHANGED << clients, write_pending, card, bridgeVars, readerPresent, cstate,
                    env, unit, hist, w_pc, w_type, w_sid, w_success, w_result,
                    conn, tx, was_connected, bc >>

-----------------------------------------------------------------------------
(* handle_client, one instance per connected browser *)

(* lines 482-489: the connection is accepted and joins state.clients.  A   *)
(* connection is a new object: the name of one that the running broadcast  *)
(* iterates over is not given to another before that broadcast ends.       *)
ClientConnect(c) ==
    /\ cstate[c] = "absent"
    /\ c \notin bc.start
    /\ clients' = clients \cup { c }
    /\ cstate' = [ cstate EXCEPT ![c] = "open" ]
    /\ UNCHANGED << write_pending, card, bridgeVars, now, readerPresent, env, unit,
                    hist, w_pc, w_type, w_sid, w_success, w_result, conn, tx,
                    loopVars >>

(* lines 500-504: write_tag; student_id is None when the key is absent *)
WriteTag(c, student_id) ==
    /\ cstate[c] = "open"
    /\ IF ~IsNone(student_id) /\ Val(student_id) # << >>
       THEN /\ write_pending' = student_id
            /\ hist' = [ hist EXCEPT
                           !.reqSince = w_pc \in { "write", "clear", "returned",
                                                   "raised" },
                           !.cancelled = FALSE ]
       ELSE UNCHANGED << write_pending, hist >>
    /\ UNCHANGED << clients, card, bridgeVars, worldVars,
                    w_pc, w_type, w_sid, w_success, w_result, conn, tx, loopVars >>

(* lines 506-508: cancel_write *)
CancelWrite(c) ==
    /\ cstate[c] = "open"
    /\ write_pending' = None
    /\ hist' = IF env.history THEN [ hist EXCEPT !.cancelled = TRUE ] ELSE hist
    /\ UNCHANGED << clients, card, bridgeVars, worldVars,
                    w_pc, w_type, w_sid, w_success, w_result, conn, tx, loopVars >>

(* lines 493-498: a message that does not parse, or of another type *)
OtherMessage(c) ==
    /\ cstate[c] = "open"
    /\ UNCHANGED vars

(* lines 494-498: json.loads raises something other than JSONDecodeError  *)
(* (a binary frame that is not UTF-8 raises UnicodeDecodeError) or the     *)
(* message parses to a value that is not an object ([], 1, null) and       *)
(* msg.get raises AttributeError.  Neither is caught: the exception leaves *)
(* the message loop through the finally of lines 512-514, and the server   *)
(* closes the connection of a handler that has ended.                      *)
MessageRaises(c) ==
    /\ cstate[c] = "open"
    /\ clients' = clients \ { c }
    /\ cstate' = [ cstate EXCEPT ![c] = "absent" ]
    /\ UNCHANGED << write_pending, card, bridgeVars, now, readerPresent, env, unit,
                    hist, w_pc, w_type, w_sid, w_success, w_result, conn, tx,
                    loopVars >>

(* the browser's connection closes *)
ClientClose(c) ==
    /\ cstate[c] = "open"
    /\ cstate' = [ cstate EXCEPT ![c] = "closed" ]
    /\ UNCHANGED << clients, write_pending, card, bridgeVars, now, readerPresent,
                    env, unit, hist, w_pc, w_type, w_sid, w_success, w_result,
                    conn, tx, loopVars >>

(* lines 510-514: the message loop ends and the finally discards the client *)
HandlerExit(c) ==
    /\ cstate[c] = "closed"
    /\ clients' = clients \ { c }
    /\ cstate' = [ cstate EXCEPT ![c] = "absent" ]
    /\ UNCHANGED << write_pending, card, bridgeVars, now, readerPresent, env, unit,
                    hist, w_pc, w_type, w_sid, w_success, w_result, conn, tx,
                    loopVars >>

-----------------------------------------------------------------------------
(* The world between two cycles: the reader is plugged or unplugged, a     *)
(* card is laid on it or taken away.  What happens to the card during a    *)
(* cycle is the cycle's fail script.                                       *)

ReaderChange ==
    /\ l_pc = "sleep"
    /\ readerPresent' = ~readerPresent
    /\ UNCHANGED << clients, write_pending, card, bridgeVars, now, cstate, env, unit,
                    hist, w_pc, w_type, w_sid, w_success, w_result, conn, tx,
                    loopVars >>

PlaceCard(cd) ==
    /\ l_pc = "sleep" /\ IsNone(card)
    /\ card' = Some(cd)
    /\ UNCHANGED << clients, write_pending, bridgeVars, worldVars,
                    hist, w_pc, w_type, w_sid, w_success, w_result, conn, tx,
                    loopVars >>

RemoveCard ==
    /\ l_pc = "sleep" /\ ~IsNone(card)
    /\ card' = None
    /\ UNCHANGED << clients, write_pending, bridgeVars, worldVars,
                    hist, w_pc, w_type, w_sid, w_success, w_result, conn, tx,
                    loopVars >>

-----------------------------------------------------------------------------
(* The bridge under several scenarios.  Each fixes, in env, the inputs the   *)
(* environment draws from, and leaves out the environment steps that play  *)
(* no part in it.                                                          *)

PollCycle ==
    \/ PollStart
    \/ PollCheckPending
    \/ PollTakePending
    \/ PollWrite
    \/ PollClear

EventLoop ==
    \/ LoopPollRaised
    \/ LoopResume
    \/ BroadcastStep
    \/ SleepDone

(* SpecPoll: the poll cycle against every kind of card, with write_tag and *)
(* cancel_write arriving at any point of it; command failures at the first *)
(* commands; one browser; the clock held still.                            *)
EnvPoll ==
    [ ids |-> { Some(Str42), Some(StrNonAscii) },
      cards |-> AllCards,
      clients0 |-> {},
      reader0 |-> TRUE,
      ticks |-> { 0 },
      readFailAt |-> { 0, 1, 2 },
      writeFailAt |-> { 0, 1, 3 },
      failKinds |-> { "exc" },
      resetFail |-> { 0, 1 },
      history |-> FALSE ]

InitPoll == InitWith(EnvPoll, NoUnit)

NextPoll ==
    \/ PollCycle
    \/ EventLoop
    \/ \E c \in AllClients : ClientConnect(c)
    \/ \E c \in AllClients, id \in env.ids : WriteTag(c, id)
    \/ \E c \in AllClients : CancelWrite(c)
    \/ \E cd \in env.cards : PlaceCard(cd)
    \/ RemoveCard
    \/ ReaderChange

SpecPoll == InitPoll /\ [][NextPoll]_vars

(* SpecDebounce: a browser connected from the start, the clock advancing   *)
(* one POLL_INTERVAL at every sleep, cards that read as valid for two      *)
(* identities, as invalid and as empty; write requests arriving between    *)
(* two cycles; no command failure.                                         *)
EnvDebounce ==
    [ ids |-> { Some(Str42) },
      cards |-> { CardNtag(make_payload(Str42) \o << Nul >>),
                  CardNtag(make_payload(Str7) \o << Nul >>),
                  CardNtag(ForgedPayload \o << Nul >>),
                  CardNtag(<< >>) },
      clients0 |-> AllClients,
      reader0 |-> TRUE,
      ticks |-> { 1 },
      readFailAt |-> { 0 },
      writeFailAt |-> { 0 },
      failKinds |-> { "exc" },
      resetFail |-> { 0 },
      history |-> TRUE ]

InitDebounce == InitWith(EnvDebounce, NoUnit)

NextDebounce ==
    \/ PollCycle
    \/ LoopResume
    \/ BroadcastStep
    \/ SleepDone
    \/ l_pc = "sleep" /\ \E c \in AllClients, id \in env.ids : WriteTag(c, id)
    \/ \E cd \in env.cards : PlaceCard(cd)
    \/ RemoveCard

SpecDebounce == InitDebounce /\ [][NextDebounce]_vars

(* SpecClients: browsers connecting and closing at any point, a broadcast *)
(* suspended in a send included; the reader plugged and unplugged; one     *)
(* valid card; the clock held still.                                       *)
EnvClients ==
    [ ids |-> { Some(Str42) },
      cards |-> { CardNtag(make_payload(Str42) \o << Nul >>) },
      clients0 |-> {},
      reader0 |-> TRUE,
      ticks |-> { 0 },
      readFailAt |-> { 0 },
      writeFailAt |-> { 0 },
      failKinds |-> { "exc" },
      resetFail |-> { 0 },
      history |-> FALSE ]

InitClients == InitWith(EnvClients, NoUnit)

NextClients ==
    \/ PollStart
    \/ PollCheckPending
    \/ LoopResume
    \/ BroadcastStep
    \/ SleepDone
    \/ \E c \in AllClients : ClientConnect(c)
    \/ \E c \in AllClients : OtherMessage(c)
    \/ \E c \in AllClients : ClientClose(c)
    \/ \E c \in AllClients : HandlerExit(c)
    \/ ReaderChange
    \/ \E cd \in env.cards : PlaceCard(cd)
    \/ RemoveCard

SpecClients == InitClients /\ [][NextClients]_vars

(* SpecMessages: every kind of message a browser can send, arriving at any *)
(* point of a cycle that reads or writes one card; no command failure; the *)
(* clock held still.                                                       *)
EnvMessages ==
    [ ids |-> { None, Some(<< >>), Some(Str42), Some(Str7) },
      cards |-> { CardNtag(make_payload(Str42) \o << Nul >>) },
      clients0 |-> {},
      reader0 |-> TRUE,
      ticks |-> { 0 },
      readFailAt |-> { 0 },
      writeFailAt |-> { 0 },
      failKinds |-> { "exc" },
      resetFail |-> { 0 },
      history |-> TRUE ]

InitMessages == InitWith(EnvMessages, NoUnit)

NextMessages ==
    \/ PollCycle
    \/ LoopResume
    \/ BroadcastStep
    \/ SleepDone
    \/ \E c \in AllClients : ClientConnect(c)
    \/ \E c \in AllClients, id \in env.ids : WriteTag(c, id)
    \/ \E c \in AllClients : CancelWrite(c)
    \/ \E c \in AllClients : OtherMessage(c)
    \/ \E c \in AllClients : MessageRaises(c)
    \/ \E cd \in env.cards : PlaceCard(cd)

SpecMessages == InitMessages /\ [][NextMessages]_vars

(* SpecDecode: reading tags of both families whose stored text is blank,   *)
(* white space only, not ASCII, white space around a signed payload, or a  *)
(* signed payload; two browsers connected; no write request, no command    *)
(* failure; the clock held still.                                          *)
StoredTexts ==
    { << >>,
      << Space, Space, Nul >>,
      << Space >> \o make_payload(Str42) \o << Space, Nul >>,
      StrNonAscii \o << Nul >>,
      make_payload(Str42) \o << Nul >> }

EnvDecode ==
    [ ids |-> {},
      cards |-> { CardNtag(d) : d \in StoredTexts }
                  \cup { CardMifare(TAG_TYPE_MIFARE_1K, d) : d \in StoredTexts },
      clients0 |-> AllClients,
      reader0 |-> TRUE,
      ticks |-> { 0 },
      readFailAt |-> { 0 },
      writeFailAt |-> { 0 },
      failKinds |-> { "exc" },
      resetFail |-> { 0 },
      history |-> FALSE ]

InitDecode == InitWith(EnvDecode, NoUnit)

NextDecode ==
    \/ PollStart
    \/ PollCheckPending
    \/ LoopResume
    \/ BroadcastStep
    \/ SleepDone
    \/ \E cd \in env.cards : PlaceCard(cd)
    \/ RemoveCard

SpecDecode == InitDecode /\ [][NextDecode]_vars

-----------------------------------------------------------------------------
(* The codec, the NTAG commands and the MIFARE commands taken alone: the   *)
(* initial state draws the input, the steps apply the functions.           *)

MaxFailAt == 9

Strings(A, n) == UNION { [ 1..k -> A ] : k \in 0..n }

IdAlphabet == { 52, 50, Colon, Space, 233 }
MutationChars == { 48, 102, 103, Colon, 233 }
CodecIdentities == Strings(IdAlphabet, MaxIdLen) \ { << >> }
RawPayloads == Strings(IdAlphabet, MaxIdLen + 1)

InitCodec ==
    \E u \in { [ kind |-> "codec", pc |-> "start", id |-> Some(s), payload |-> << >>,
                 mutated |-> FALSE, raised |-> FALSE, result |-> None ]
                 : s \in CodecIdentities }
             \cup
             { [ kind |-> "codec", pc |-> "made", id |-> None, payload |-> p,
                 mutated |-> FALSE, raised |-> FALSE, result |-> None ]
                 : p \in RawPayloads } :
        InitWith(EnvPoll, u)

mainVars == << clients, write_pending, last_scan_id, last_scan_time,
               reader_connected, last_error_event, last_error_time,
               now, readerPresent, card, cstate,
               w_pc, w_type, w_sid, w_success, w_result, conn, tx,
               l_pc, was_connected, l_result, bc, emitted, hist, env >>

(* payload = make_payload(student_id) *)
CodecMake ==
    /\ unit.kind = "codec" /\ unit.pc = "start"
    /\ unit' = [ unit EXCEPT !.pc = "made", !.payload = make_payload(Val(unit.id)) ]
    /\ UNCHANGED mainVars

(* one character of the signature part of a made payload is altered *)
CodecMutate ==
    /\ unit.kind = "codec" /\ unit.pc = "made" /\ ~IsNone(unit.id) /\ ~unit.mutated
    /\ \E i \in (Len(Val(unit.id)) + 2)..Len(unit.payload), c \in MutationChars :
         /\ c # unit.payload[i]
         /\ unit' = [ unit EXCEPT !.mutated = TRUE,
                                  !.payload = [ unit.payload EXCEPT ![i] = c ] ]
    /\ UNCHANGED mainVars

(* verify_payload(payload) *)
CodecVerify ==
    /\ unit.kind = "codec" /\ unit.pc = "made"
    /\ unit' = IF VerifyRaises(unit.payload)
               THEN [ unit EXCEPT !.pc = "done", !.raised = TRUE ]
               ELSE [ unit EXCEPT !.pc = "done",
                                  !.result = verify_payload(unit.payload) ]
    /\ UNCHANGED mainVars

NextCodec == CodecMake \/ CodecMutate \/ CodecVerify

SpecCodec == InitCodec /\ [][NextCodec]_vars

(* the longest identity whose payload fits the 4 * MaxPages bytes read back *)
LongIdLen == 4 * MaxPages - DigestHexLen - 1

NtagIdentities ==
    { Str42, << Space >> \o Str42, << 52, Colon, 50 >>, StrNonAscii,
      Rep(55, LongIdLen), Rep(55, LongIdLen + 1) }

UnitFails(kinds) == FailScripts(0..MaxFailAt, kinds)

InitNtag ==
    \E s \in NtagIdentities,
       m \in { NtagMem(<< >>), NtagMem(make_payload(Rep(57, LongIdLen)) \o << Nul >>) } :
        InitWith(EnvPoll, [ kind |-> "ntag", pc |-> "start", id |-> s, mem |-> m,
                            ok |-> FALSE, wclean |-> FALSE, rclean |-> FALSE,
                            read |-> None ])

(* write_tag_data(connection, make_payload(id)) *)
NtagWriteUnit ==
    /\ unit.kind = "ntag" /\ unit.pc = "start"
    /\ LET payload == make_payload(unit.id)
       IN  IF EncodeRaises(payload)
           THEN unit' = [ unit EXCEPT !.pc = "raised" ]
           ELSE \E fail \in UnitFails(NtagFailKinds) :
                  LET r == write_tag_data(NewSession(unit.mem), payload, fail)
                  IN  unit' = [ unit EXCEPT !.pc = "written", !.mem = r.st.mem,
                                  !.ok = r.ok,
                                  !.wclean = fail.at = 0 \/ fail.at > r.st.k ]
    /\ UNCHANGED mainVars

(* read_tag_data(connection) on the same tag *)
NtagReadUnit ==
    /\ unit.kind = "ntag" /\ unit.pc = "written"
    /\ \E fail \in UnitFails(NtagFailKinds) :
         LET r == read_tag_data(NewSession(unit.mem), fail)
         IN  unit' = [ unit EXCEPT !.pc = "read", !.read = r.ret,
                         !.rclean = fail.at = 0 \/ fail.at > r.st.k ]
    /\ UNCHANGED mainVars

NextNtag == NtagWriteUnit \/ NtagReadUnit

SpecNtag == InitNtag /\ [][NextNtag]_vars

MifarePayloads ==
    { Rep(65, n) : n \in 0..MaxPayloadLen } \cup { make_payload(Str42) }

InitMifare ==
    \E q \in MifarePayloads,
       m \in { MifareMem(<< >>), MifareMem(make_payload(Str7) \o << Nul >>) } :
        InitWith(EnvPoll, [ kind |-> "mifare", pc |-> "start", payload |-> q,
                            mem0 |-> m, mem |-> m, ok |-> FALSE, wtx |-> << >>,
                            wclean |-> FALSE, rtx |-> << >>, read |-> None,
                            wfailed |-> 0, rfailed |-> 0 ])

(* write_tag_data_mifare(connection, payload) *)
MifareWriteUnit ==
    /\ unit.kind = "mifare" /\ unit.pc = "start"
    /\ \E fail \in UnitFails(MifareFailKinds) :
         LET r == write_tag_data_mifare(NewSession(unit.mem), unit.payload, fail)
         IN  unit' = [ unit EXCEPT !.pc = "written", !.mem = r.st.mem, !.ok = r.ok,
                         !.wtx = r.st.tx,
                         !.wclean = fail.at = 0 \/ fail.at > r.st.k,
                         !.wfailed = IF fail.at \in 1..r.st.k THEN fail.at ELSE 0 ]
    /\ UNCHANGED mainVars

(* read_tag_data_mifare(connection) on the same tag *)
MifareReadUnit ==
    /\ unit.kind = "mifare" /\ unit.pc = "written"
    /\ \E fail \in UnitFails(MifareFailKinds) :
         LET r == read_tag_data_mifare(NewSession(unit.mem), fail)
         IN  unit' = [ unit EXCEPT !.pc = "read", !.read = r.ret, !.rtx = r.st.tx,
                         !.rfailed = IF fail.at \in 1..r.st.k THEN fail.at ELSE 0 ]
    /\ UNCHANGED mainVars

NextMifare == MifareWriteUnit \/ MifareReadUnit

SpecMifare == InitMifare /\ [][NextMifare]_vars

-----------------------------------------------------------------------------
(* Properties of the codec, checked under SpecCodec *)

CodecDone == unit.kind = "codec" /\ unit.pc = "done"
BeforeSep(p) == SubSeq(p, 1, IndexOf(p, Colon) - 1)
AfterSep(p) == SubSeq(p, IndexOf(p, Colon) + 1, Len(p))

(* C3: for every non-empty identity s, the separator included in the       *)
(* alphabet, verify_payload(make_payload(s)) returns s.                    *)
C3_RoundTrip ==
    (CodecDone /\ ~IsNone(unit.id) /\ ~unit.mutated) =>
        (~unit.raised /\ unit.result = unit.id)

-----------------------------------------------------------------------------
(* Properties of the tag commands, checked under SpecNtag and SpecMifare *)

(* C8: for an ASCII identity s, when write_tag_data(make_payload(s))       *)
(* returned success and every command succeeded, read_tag_data on the same *)
(* tag returns make_payload(s), which verifies to s.                       *)
C8_NtagRoundTrip ==
    (unit.kind = "ntag" /\ unit.pc = "read" /\ IsAscii(unit.id)
       /\ unit.ok /\ unit.wclean /\ unit.rclean) =>
        /\ unit.read = Some(make_payload(unit.id))
        /\ verify_payload(Val(unit.read)) = Some(unit.id)

MifareCapacity == 16 * Len(MIFARE_DATA_BLOCKS)

(* C9: write_tag_data_mifare on a payload whose null-terminated length,    *)
(* padded to 16 bytes, exceeds the capacity of the six data blocks returns *)
(* failure having transmitted nothing and written nothing; a payload that  *)
(* fits passes the check: the key load is transmitted, and the write       *)
(* succeeds when no command fails.                                         *)
C9_MifareCapacity ==
    (unit.kind = "mifare" /\ unit.pc \in { "written", "read" }) =>
        LET padded == PadTo(unit.payload \o << Nul >>, 16)
        IN  /\ Len(padded) > MifareCapacity =>
                  (~unit.ok /\ unit.wtx = << >> /\ unit.mem = unit.mem0)
            /\ Len(padded) <= MifareCapacity =>
                  (unit.wtx # << >> /\ (unit.wclean => unit.ok))

(* C9 witness: a payload of 96 characters is refused, nothing sent *)
C9_Witness ==
    /\ unit.kind = "mifare" /\ unit.pc = "written"
    /\ Len(unit.payload) = MifareCapacity
    /\ ~unit.ok /\ unit.wtx = << >>

-----------------------------------------------------------------------------
(* Properties of the poll cycle, checked under SpecPoll *)

CycleEnded == w_pc \in { "returned", "raised" }

(* C1: a poll cycle that took a pending identity (line 551) ends with      *)
(* write_pending empty, however the write attempt ended, unless a new      *)
(* write_tag arrived since.                                                *)
C1_PendingClearedAfterAttempt ==
    (CycleEnded /\ ~IsNone(w_sid) /\ ~hist.reqSince) => IsNone(write_pending)

(* C2: no poll cycle ends with a connection that connect() opened and      *)
(* that was not disconnected.                                              *)
C2_ConnectionReleased == CycleEnded => conn # "open"

UnsupportedAtrs == { AtrOf(TAG_TYPE_DESFIRE), AtrOf(38), AtrNoRid }
ResolvedName(atr) == IF atr = AtrOf(TAG_TYPE_DESFIRE) THEN "MIFARE DESFire" ELSE "unknown"
TagCommands == { "ntag_read", "ntag_write", "load_key", "auth", "mf_read", "mf_write" }

(* C7: with a card on the reader whose chip type is neither NTAG nor       *)
(* MIFARE Classic, a cycle sends no read, write, load-key or authenticate  *)
(* command; unless the connect failed (no_card) it ends in unsupported_tag *)
(* with the chip's resolved name and has sent the field reset, beginning   *)
(* with the disable command, and nothing else; pending write or not.       *)
C7_UnsupportedNeverReadOrWritten ==
    (CycleEnded /\ readerPresent /\ ~IsNone(card)
       /\ Val(card).atr \in UnsupportedAtrs) =>
        /\ w_pc = "returned"
        /\ \A i \in 1..Len(tx) : tx[i].op \notin TagCommands
        /\ \/ w_result.event = "no_card" /\ tx = << >>
           \/ /\ w_result.event = "unsupported_tag"
              /\ w_result.tag_type = ResolvedName(Val(card).atr)
              /\ tx # << >> /\ tx[1].op = "rf_off"
              /\ \A i \in 1..Len(tx) : tx[i].op \in { "rf_off", "rf_on", "disconnect" }

(* C7 witness: a card without a chip-type code, a write pending, the cycle *)
(* ended in unsupported_tag                                                *)
C7_Witness ==
    /\ w_pc = "returned" /\ w_result.event = "unsupported_tag"
    /\ ~IsNone(card) /\ Val(card).atr = AtrNoRid
    /\ ~IsNone(write_pending)
    /\ Len(tx) = 3

-----------------------------------------------------------------------------
(* Properties of the dispatch, checked under SpecDebounce.  A step         *)
(* dispatches an event when it replaces hist.last: the clock has advanced  *)
(* since the previous dispatch.  hist is the history before the step,      *)
(* l_result' the event dispatched and emitted' the cycle's broadcasts.     *)

Dispatches(event) == hist'.last # hist.last /\ l_result'.event = event

Emits(type) == \E i \in DOMAIN emitted' : emitted'[i].type = type

(* C5: a valid_tag for identity X is broadcast as tag_scan for X unless    *)
(* the last tag_scan broadcast was for X and less than DEBOUNCE_SECONDS    *)
(* ago, in which case nothing is broadcast: between two valid_tag for X    *)
(* with no other identity in between the window runs from the last one     *)
(* that was broadcast, and X is broadcast again once it has elapsed.       *)
C5_ScanDebounce ==
    [][ Dispatches("valid_tag") =>
          LET X == l_result'.student_id
              inWindow == /\ ~IsNone(hist.scanB)
                          /\ Val(hist.scanB).id = X
                          /\ now - Val(hist.scanB).time < DEBOUNCE_SECONDS * TicksPerSecond
          IN  /\ Emits("tag_scan") <=> ~inWindow
              /\ \A i \in DOMAIN emitted' :
                    emitted'[i].type = "tag_scan" => emitted'[i].student_id = X
      ]_vars

(* C5 witness: a valid_tag for the identity broadcast less than the window *)
(* before has been dispatched and nothing was broadcast                    *)
C5_Witness ==
    /\ l_pc = "sleep" /\ l_result.event = "valid_tag"
    /\ hist.last.event = "valid_tag" /\ hist.last.time = now
    /\ ~IsNone(hist.scanB) /\ Val(hist.scanB).id = l_result.student_id
    /\ Val(hist.scanB).time < now
    /\ now - Val(hist.scanB).time < DEBOUNCE_SECONDS * TicksPerSecond
    /\ emitted = << >>

(* C6: an invalid_tag that directly follows an invalid_tag whose error was *)
(* broadcast less than DEBOUNCE_SECONDS before broadcasts no error, so the *)
(* two produce one; an invalid_tag with no invalid_tag since the start or  *)
(* since the last valid_tag or write_result broadcasts its error, whatever *)
(* the time.                                                               *)
C6_ErrorDebounce ==
    [][ Dispatches("invalid_tag") =>
          /\ ( /\ hist.last.event = "invalid_tag" /\ hist.last.didErr
               /\ now - hist.last.time < DEBOUNCE_SECONDS * TicksPerSecond )
                => ~Emits("error")
          /\ hist.errFresh => Emits("error")
      ]_vars

(* C6 witness: an invalid_tag right after an invalid_tag, inside the       *)
(* window of the error broadcast, has been dispatched without a broadcast  *)
C6_Witness ==
    /\ l_pc = "sleep" /\ l_result.event = "invalid_tag"
    /\ hist.last.event = "invalid_tag" /\ hist.last.time = now /\ ~hist.last.didErr
    /\ last_error_event = Some("invalid_tag")
    /\ last_error_time < now
    /\ now - last_error_time < DEBOUNCE_SECONDS * TicksPerSecond
    /\ emitted = << >>

-----------------------------------------------------------------------------
(* Properties of the loop, checked under SpecClients *)

(* C10: nfc_poll_loop never terminates: whatever is raised while it runs a *)
(* cycle and processes the result, it goes on to the sleep and the next    *)
(* cycle.                                                                  *)
C10_LoopNeverTerminates == l_pc # "dead"

-----------------------------------------------------------------------------
(* Properties of broadcast and of the reader status, checked under         *)
(* SpecClients                                                             *)

(* the step that ends the running broadcast, normally or by an exception *)
BroadcastEnds == bc.active /\ ~(bc'.active /\ bc'.msg = bc.msg)

(* C11: when a broadcast ends, every client that was in state.clients when *)
(* it began and is still there and open (a connection, once closed or      *)
(* discarded, does not come back) has been sent the message, and every     *)
(* client whose send failed on a closed connection is out of               *)
(* state.clients.                                                          *)
C11_BroadcastDelivers ==
    [][ BroadcastEnds =>
          LET failed == bc.gone \cup { c \in { bc.cur } : cstate[c] # "open" }
              reached == bc.start \ bc.todo
          IN  /\ \A c \in bc.start :
                    (c \in clients /\ cstate[c] = "open") => c \in reached
              /\ \A c \in failed : c \notin clients'
      ]_vars

(* the step in which nfc_poll_loop takes a cycle's result and classifies   *)
(* its event                                                               *)
Classifies == l_pc = "await" /\ w_pc = "returned" /\ l_pc' # "await"

(* C12: reader_status is broadcast by a cycle exactly when its event's     *)
(* connectivity differs from that of the previous classified cycle (always *)
(* at the first one); it carries that connectivity, which differs from the *)
(* value of the reader_status before it; no other step broadcasts one; and *)
(* state.reader_connected is the value of the latest reader_status.        *)
C12_ReaderStatusOnTransition ==
    [][ /\ Classifies =>
              LET connected == w_result.event # "no_reader"
              IN  /\ Emits("reader_status") <=> (hist.conn # Some(connected))
                  /\ \A i \in DOMAIN emitted' :
                        (emitted'[i].type = "reader_status") =>
                           ( /\ i = 1
                             /\ emitted'[i].connected = connected
                             /\ hist.statusB # Some(connected) )
        /\ (~Classifies /\ emitted' # emitted /\ emitted' # << >>) =>
              (emitted'[Len(emitted')].type # "reader_status")
        /\ (~IsNone(hist'.statusB)) => (reader_connected' = Val(hist'.statusB))
      ]_vars

(* C12 witness: after a reader_status carrying true, a cycle that found no *)
(* reader has broadcast one carrying false                                 *)
C12_Witness ==
    /\ emitted # << >> /\ emitted[1].type = "reader_status"
    /\ ~emitted[1].connected
    /\ l_result.event = "no_reader"
    /\ ~reader_connected /\ hist.statusB = Some(FALSE)

-----------------------------------------------------------------------------
(* Properties of the MIFARE Classic commands, checked under SpecMifare.    *)
(* unit.wtx and unit.rtx are the commands the write and the read           *)
(* transmitted, unit.wfailed and unit.rfailed the position in them of the  *)
(* command that failed (0: none).                                          *)

MifareWritten == unit.kind = "mifare" /\ unit.pc \in { "written", "read" }
MifareRead == unit.kind = "mifare" /\ unit.pc = "read"

(* C13: when write_tag_data_mifare returns failure, the tag holds what it  *)
(* held before the call; when a command of read_tag_data_mifare fails, the *)
(* read returns no data.                                                   *)
C13_MifareNoPartialCommit ==
    /\ (MifareWritten /\ ~unit.ok) => unit.mem = unit.mem0
    /\ (MifareRead /\ unit.rfailed # 0) => IsNone(unit.read)

-----------------------------------------------------------------------------
(* Properties of handle_client, checked under SpecMessages *)

stateFields == << clients, write_pending, bridgeVars >>

(* C14: a write_tag with a non-empty student_id sets write_pending to it;  *)
(* a write_tag with absent or empty student_id, a message that does not    *)
(* parse and a message of any other type leave every field of the bridge   *)
(* state unchanged; cancel_write empties write_pending; no message changes *)
(* the debounce fields or reader_connected.                                *)
C14_ClientMessageFrame ==
    [][ \A c \in AllClients :
          /\ \A id \in env.ids :
                WriteTag(c, id) =>
                   IF ~IsNone(id) /\ Val(id) # << >>
                   THEN write_pending' = id /\ UNCHANGED << clients, bridgeVars >>
                   ELSE UNCHANGED stateFields
          /\ CancelWrite(c) =>
                (write_pending' = None /\ UNCHANGED << clients, bridgeVars >>)
          /\ (OtherMessage(c) \/ MessageRaises(c)) => UNCHANGED stateFields
      ]_vars

-----------------------------------------------------------------------------
(* Properties of one poll cycle, step by step, checked under SpecPoll *)

Returns == w_pc # "returned" /\ w_pc' = "returned"
ReadCommands == { "ntag_read", "mf_read" }
WriteCommands == { "ntag_write", "mf_write" }
ReadOutcomes == { "empty_tag", "invalid_tag", "valid_tag" }
Sends(log, ops) == \E i \in DOMAIN log : log[i].op \in ops

(* the bytes of the card's data area, the sector trailer of a MIFARE card  *)
(* left out                                                                *)
DataArea(cd) ==
    IF Len(cd.mem) = 4 * NtagUserPages THEN cd.mem
    ELSE SubSeq(cd.mem, 1, 48) \o SubSeq(cd.mem, 65, Len(cd.mem))

Holds(cd, payload) ==
    SubSeq(DataArea(cd), 1, Len(payload) + 1) = payload \o << Nul >>

(* C15: a cycle that returns yields one event, decided in the order        *)
(* no_reader, no_card, unsupported_tag, write_result, read outcome.  With a *)
(* supported card and a write pending it sends no read command, writes     *)
(* make_payload of the identity it took when the write began and returns   *)
(* write_result with that identity and the writer's success flag; with no  *)
(* write pending it sends no write command and returns one of empty_tag,   *)
(* invalid_tag, valid_tag.                                                 *)
C15_OneEventInOrder ==
    [][ /\ (w_pc = "idle" /\ w_pc' # "idle") =>
              LET supported == ~IsNone(card) /\ Val(card).atr \notin UnsupportedAtrs
                  e == w_result'.event
              IN  /\ ~readerPresent => (Returns /\ e = "no_reader")
                  /\ (readerPresent /\ IsNone(card)) => (Returns /\ e = "no_card")
                  /\ (readerPresent /\ ~IsNone(card) /\ ~supported) =>
                        (Returns /\ e \in { "no_card", "unsupported_tag" })
                  /\ (readerPresent /\ supported) =>
                        (\/ Returns /\ e = "no_card"
                         \/ w_pc' = "check" /\ tx' = << >>)
        /\ (w_pc = "check" /\ w_pc' # "check") =>
              IF IsNone(write_pending)
              THEN /\ w_pc' \in { "returned", "raised" }
                   /\ Returns => w_result'.event \in ReadOutcomes
                   /\ ~Sends(tx', WriteCommands)
              ELSE w_pc' = "take" /\ tx' = << >>
        /\ (w_pc = "take" /\ w_pc' = "write") => w_sid' = write_pending
        /\ (w_pc = "write" /\ w_pc' = "clear") =>
              /\ ~Sends(tx', ReadCommands)
              /\ w_success' => Holds(Val(card'), make_payload(Val(w_sid)))
        /\ (w_pc = "clear" /\ w_pc' # "clear") =>
              /\ Returns
              /\ w_result'.event = "write_result"
              /\ w_result'.student_id = w_sid
              /\ w_result'.success = w_success
              /\ ~Sends(tx', ReadCommands)
      ]_vars

C15_Witness ==
    /\ w_pc = "returned" /\ w_result.event = "write_result"
    /\ w_result.success /\ w_result.student_id = Some(Str42)
    /\ write_pending = Some(StrNonAscii)
    /\ Val(card).atr = AtrOf(TAG_TYPE_MIFARE_1K)
    /\ Holds(Val(card), make_payload(Str42))
    /\ Sends(tx, { "mf_write" })

(* the events after which the reader and the tag may be out of step *)
ResetEvent(res) ==
    \/ res.event \in { "unsupported_tag", "empty_tag" }
    \/ res.event = "write_result" /\ ~res.success

(* C16: a cycle disables and then enables the RF field exactly when it     *)
(* ends in unsupported_tag, in empty_tag or in write_result with success   *)
(* false, and in no other case; the reset comes before the disconnect,     *)
(* which is the last thing done on the connection; a reset that fails      *)
(* leaves the cycle returning the event its cause determines.              *)
C16_ResetIffDesynchronised ==
    CycleEnded =>
        LET n == Len(tx)
            cut == \E i \in 1..n :
                      tx[i].op = "rf_off" /\ (i = n \/ tx[i + 1].op # "rf_on")
        IN  /\ Sends(tx, { "rf_off" }) <=> (w_pc = "returned" /\ ResetEvent(w_result))
            /\ \A i, j \in 1..n :
                  (tx[i].op = "rf_off" /\ tx[j].op = "rf_off") => i = j
            /\ \A i \in 1..n : tx[i].op = "rf_on" => (i > 1 /\ tx[i - 1].op = "rf_off")
            /\ \A i \in 1..n : tx[i].op = "disconnect" => i = n
            /\ conn = "closed" => (n > 0 /\ tx[n].op = "disconnect")
            /\ cut =>
                  /\ w_pc = "returned"
                  /\ w_result.event =
                        IF Val(card).atr \in UnsupportedAtrs THEN "unsupported_tag"
                        ELSE IF ~IsNone(w_sid) THEN "write_result"
                        ELSE "empty_tag"
                  /\ w_result.success = w_success

C16_Witness ==
    /\ w_pc = "returned" /\ w_result.event = "write_result" /\ ~w_result.success
    /\ Len(tx) >= 4 /\ Sends(tx, WriteCommands)
    /\ tx[Len(tx) - 2].op = "rf_off"
    /\ tx[Len(tx) - 1].op = "rf_on"
    /\ tx[Len(tx)].op = "disconnect"

-----------------------------------------------------------------------------
(* Properties of the MIFARE command sequences, checked under SpecMifare.   *)
(* A log is the commands of one call, failed the position in it of the     *)
(* command the fail script made fail (0: none).                            *)

SectorOf(entry) == entry.addr \div 4
BlockCommands == { "mf_read", "mf_write" }

(* C17: in one call the key is loaded once, first; every block read or     *)
(* write follows a successful authentication of a block of its sector with *)
(* no other authentication in between; only blocks 4 and 8 are             *)
(* authenticated, each once; the command that failed is the call's last,   *)
(* and the call then reports failure.                                      *)
KeyedAndAuthenticated(log, failed) ==
    LET n == Len(log)
    IN  /\ n > 0 => log[1].op = "load_key"
        /\ \A i \in 2..n : log[i].op # "load_key"
        /\ \A i \in 1..n :
              log[i].op \in BlockCommands =>
                 \E j \in 1..(i - 1) :
                    /\ log[j].op = "auth" /\ j # failed
                    /\ SectorOf(log[j]) = SectorOf(log[i])
                    /\ \A k \in (j + 1)..(i - 1) : log[k].op # "auth"
        /\ \A i \in 1..n : log[i].op = "auth" => log[i].addr \in { 4, 8 }
        /\ \A i, j \in 1..n :
              (log[i].op = "auth" /\ log[j].op = "auth" /\ log[i].addr = log[j].addr)
                 => i = j
        /\ failed # 0 => n = failed

C17_MifareKeyedAndAuthenticated ==
    /\ MifareWritten =>
          /\ KeyedAndAuthenticated(unit.wtx, unit.wfailed)
          /\ unit.wfailed # 0 => ~unit.ok
    /\ MifareRead =>
          /\ KeyedAndAuthenticated(unit.rtx, unit.rfailed)
          /\ unit.rfailed # 0 => IsNone(unit.read)

(* C17 witness: a write into both sectors whose second authentication      *)
(* failed, then a read of all six blocks                                   *)
C17_Witness ==
    /\ MifareRead
    /\ unit.wfailed = 6 /\ unit.wtx[6] = [ op |-> "auth", addr |-> 8 ]
    /\ unit.rfailed = 0 /\ Len(unit.rtx) = 9
    /\ unit.rtx[6] = [ op |-> "auth", addr |-> 8 ]

(* C18: every authenticate, read and write command addresses one of the    *)
(* blocks 4, 5, 6, 8, 9, 10; a write, and a read, takes them in that order *)
(* from block 4; the sector trailer between them keeps its bytes.          *)
DataBlockOrder == << 4, 5, 6, 8, 9, 10 >>

Addressed(log, ops) ==
    LET F[i \in 0..Len(log)] ==
          IF i = 0 THEN << >>
          ELSE IF log[i].op \in ops THEN Append(F[i - 1], log[i].addr) ELSE F[i - 1]
    IN  F[Len(log)]

InDataBlockOrder(log) ==
    LET a == Addressed(log, BlockCommands)
    IN  /\ Len(a) <= Len(DataBlockOrder)
        /\ a = SubSeq(DataBlockOrder, 1, Len(a))
        /\ \A i \in 1..Len(log) :
              log[i].op \in BlockCommands \cup { "auth" } =>
                 log[i].addr \in { 4, 5, 6, 8, 9, 10 }

C18_MifareDataBlocksOnly ==
    /\ MifareWritten =>
          /\ InDataBlockOrder(unit.wtx)
          /\ SubSeq(unit.mem, 49, 64) = SubSeq(unit.mem0, 49, 64)
    /\ MifareRead => InDataBlockOrder(unit.rtx)

(* C18 witness: a payload that fills the six blocks, written and read back *)
C18_Witness ==
    /\ MifareRead /\ unit.ok
    /\ Addressed(unit.wtx, { "mf_write" }) = DataBlockOrder
    /\ Addressed(unit.rtx, { "mf_read" }) = DataBlockOrder

-----------------------------------------------------------------------------
(* Properties of reading what a tag stores, checked under SpecDecode *)

(* the bytes of the data area before the first zero byte *)
StoredText(cd) ==
    LET b == DataArea(cd)
        zeros == { i \in 1..Len(b) : b[i] = Nul }
    IN  IF zeros = {} THEN b ELSE SubSeq(b, 1, Min(zeros) - 1)

NoText(cd) == ~IsAscii(StoredText(cd)) \/ Strip(StoredText(cd)) = << >>

(* C19: when the stored bytes up to the first zero byte, decoded as ASCII  *)
(* and stripped, are the empty string, or are not ASCII, a cycle that      *)
(* reads the tag returns empty_tag, resets the field and notifies no       *)
(* client.                                                                 *)
C19_NoTextReadsAsEmpty ==
    /\ (w_pc = "returned" /\ w_result.event \in ReadOutcomes /\ NoText(Val(card))) =>
          (w_result.event = "empty_tag" /\ Sends(tx, { "rf_off" }))
    /\ (l_pc \in { "bcast", "sleep" } /\ l_result.event = "empty_tag") =>
          emitted = << >>

-----------------------------------------------------------------------------
(* Properties of the pending write across the two threads, checked under   *)
(* SpecPoll.  hist.reqSince tells that a write_tag was accepted after the  *)
(* running cycle took its identity (line 551).                             *)

(* C20: a pending identity stays until a newer write_tag replaces it, a    *)
(* cancel_write empties it, or the cycle that began a write attempt with   *)
(* that very request clears it.                                            *)
C20_AcceptedWriteNotLost ==
    [][ (~IsNone(write_pending) /\ write_pending' # write_pending) =>
          \/ \E c \in AllClients, id \in env.ids : WriteTag(c, id)
          \/ \E c \in AllClients : CancelWrite(c)
          \/ w_pc = "clear" /\ w_sid = write_pending /\ ~hist.reqSince
      ]_vars

-----------------------------------------------------------------------------
(* Properties of cancel_write across the two threads, checked under        *)
(* SpecMessages.  hist.cancelled tells, before the step, that a            *)
(* cancel_write was processed and no write_tag was accepted since.         *)

(* the step adds to the cycle's log a command of ops *)
Transmits(ops) ==
    \E i \in DOMAIN tx' :
       tx'[i].op \in ops /\ (i > Len(tx) \/ tx[i] # tx'[i])

(* the step calls broadcast with a message of the type *)
Broadcasts(type) ==
    \E i \in DOMAIN emitted' :
       emitted'[i].type = type /\ (i > Len(emitted) \/ emitted[i] # emitted'[i])

(* C21: from a cancel_write until the next accepted write_tag no write     *)
(* command is transmitted and no write_complete is broadcast.              *)
C21_CancelStopsWrite ==
    [][ hist.cancelled =>
          (~Transmits(WriteCommands) /\ ~Broadcasts("write_complete"))
      ]_vars

-----------------------------------------------------------------------------
(* Properties of the error debounce over several events, checked under     *)
(* SpecDebounce.  hist.errB[k] is, before the step, the time of the last   *)
(* error broadcast of kind k since the start or the last valid_tag or      *)
(* write_result.                                                           *)

ErrorKinds == { "invalid_tag", "unsupported_tag" }
QuietEvents == { "empty_tag", "no_card", "no_reader" }

(* C22: an error event of a kind whose error was broadcast less than       *)
(* DEBOUNCE_SECONDS before, with no valid_tag and no write_result since,   *)
(* broadcasts nothing, whatever was dispatched in between; empty_tag,      *)
(* no_card and no_reader leave last_error_event and last_error_time as     *)
(* they are.                                                               *)
C22_OneErrorPerKindPerWindow ==
    [][ /\ \A k \in ErrorKinds :
              ( /\ Dispatches(k)
                /\ ~IsNone(hist.errB[k])
                /\ now - Val(hist.errB[k]) < DEBOUNCE_SECONDS * TicksPerSecond )
                 => ~Emits("error")
        /\ \A e \in QuietEvents :
              Dispatches(e) => UNCHANGED << last_error_event, last_error_time >>
      ]_vars

====
